---- MODULE Spec2Model ----
(***************************************************************************)
(* Model of src/main.py: the command-line run of ConditionalMasker.        *)
(*   main -> ConditionalMasker.__init__ (load_config) -> process_data      *)
(*        -> mask_data (for record / for rule) -> json.dump -> exit.       *)
(* Python values are tagged records, Python dicts are TLA+ functions from  *)
(* field names to values, and objects live in a heap so that record.copy() *)
(* (a new object) is distinguishable from an alias of the caller's record. *)
(***************************************************************************)
EXTENDS Integers, Sequences, FiniteSets, TLC

VARIABLES args, configFile, inputFile, outputFile, config, heap, data,
          masked_data, masked_record, i, j, log, pc, exitStatus

vars == <<args, configFile, inputFile, outputFile, config, heap, data,
          masked_data, masked_record, i, j, log, pc, exitStatus>>

(***************************************************************************)
(* Bounds of the model.                                                    *)
(***************************************************************************)
MaxRules == 2
MaxRecords == 2

SeqsUpTo(S, n) == UNION {[1..m -> S] : m \in 0..n}

(***************************************************************************)
(* Python values: str and int as they come out of json.load, bool as the   *)
(* result of a comparison.                                                 *)
(***************************************************************************)
PyStr(s) == [t |-> "str", s |-> s, n |-> 0]
PyInt(n) == [t |-> "int", s |-> "", n |-> n]
PyBool(b) == [t |-> "bool", s |-> "", n |-> IF b THEN 1 ELSE 0]

\* bool(v), as the `if` of mask_data applies it to the value eval returns.
Truthy(v) == IF v.t = "str" THEN v.s # "" ELSE v.n # 0

\* a == b: numbers (int, bool) compare by value, strings by content, and a
\* string never equals a number.
PyEq(a, b) ==
    IF a.t \in {"int", "bool"} /\ b.t \in {"int", "bool"}
    THEN a.n = b.n
    ELSE a.t = b.t /\ a.s = b.s

(***************************************************************************)
(* eval(rule['condition'], {}, masked_record).                             *)
(* Parse gives the expression tree of a condition string; anything that is *)
(* not an expression is a SyntaxError.  The conditions are the predicate   *)
(* language of the masker: names, subscripts, literals, ==, >, not, and.   *)
(***************************************************************************)
Parse(condition) ==
    CASE condition = "department == 'HR'" ->
            <<"eq", <<"name", "department">>, <<"lit", PyStr("HR")>>>>
      [] condition = "record['department'] == 'HR'" ->
            <<"eq", <<"sub", <<"name", "record">>, <<"lit", PyStr("department")>>>>,
                    <<"lit", PyStr("HR")>>>>
      [] condition = "department == 'HR' and age > 60" ->
            <<"and", <<"eq", <<"name", "department">>, <<"lit", PyStr("HR")>>>>,
                     <<"gt", <<"name", "age">>, <<"lit", PyInt(60)>>>>>>
      [] condition = "not email == 'a@x.com'" ->
            <<"not", <<"eq", <<"name", "email">>, <<"lit", PyStr("a@x.com")>>>>>>
      [] OTHER -> <<"syntax">>

Ok(v) == [exc |-> "none", v |-> v]
Raise(e) == [exc |-> e, v |-> PyStr("")]

\* a > b for the operand types of the model: two numbers compare, a string
\* against a number raises TypeError.
PyGt(a, b) ==
    IF a.t \in {"int", "bool"} /\ b.t \in {"int", "bool"}
    THEN Ok(PyBool(a.n > b.n))
    ELSE Raise("TypeError")

\* A name is looked up in the locals (the record), then in the empty globals
\* and the builtins, where no field name of the model is found: NameError.
LookupName(name, locals) ==
    IF name \in DOMAIN locals THEN Ok(locals[name]) ELSE Raise("NameError")

RECURSIVE Eval(_, _)
Eval(e, locals) ==
    CASE e[1] = "lit" -> Ok(e[2])
      [] e[1] = "name" -> LookupName(e[2], locals)
      [] e[1] = "sub" ->
            \* str and int values are not subscriptable by a string key
            LET c == Eval(e[2], locals) IN
            IF c.exc # "none" THEN c ELSE Raise("TypeError")
      [] e[1] = "eq" ->
            LET l == Eval(e[2], locals) IN
            IF l.exc # "none" THEN l
            ELSE LET r == Eval(e[3], locals) IN
                 IF r.exc # "none" THEN r ELSE Ok(PyBool(PyEq(l.v, r.v)))
      [] e[1] = "gt" ->
            LET l == Eval(e[2], locals) IN
            IF l.exc # "none" THEN l
            ELSE LET r == Eval(e[3], locals) IN
                 IF r.exc # "none" THEN r ELSE PyGt(l.v, r.v)
      [] e[1] = "not" ->
            LET c == Eval(e[2], locals) IN
            IF c.exc # "none" THEN c ELSE Ok(PyBool(~Truthy(c.v)))
      [] e[1] = "and" ->
            LET l == Eval(e[2], locals) IN
            IF l.exc # "none" \/ ~Truthy(l.v) THEN l ELSE Eval(e[3], locals)
      [] OTHER -> Raise("SyntaxError")

(***************************************************************************)
(* apply_masking.                                                          *)
(***************************************************************************)
RecognizedTypes ==
    {"name", "email", "address", "phone_number", "company", "ssn", "date",
     "city", "country", "text", "password"}

\* What the Faker generator of a category can return: two sample values per
\* category, any of which a call may produce.
FakerValues(masking_type) ==
    CASE masking_type = "name" -> {"Carter Daniel", "Kayla Harrison"}
      [] masking_type = "email" -> {"carter55@gmail.com", "kaylaharrison@yahoo.com"}
      [] masking_type = "address" -> {"6449 Daniel Village", "16045 Ashley Drive"}
      [] masking_type = "phone_number" -> {"277-482-8277 x823", "805-577-8436"}
      [] masking_type = "company" -> {"Daniel Ltd", "Harrison Inc"}
      [] masking_type = "ssn" -> {"277-48-8277", "805-57-8436"}
      [] masking_type = "date" -> {"1999-01-02", "2004-05-06"}
      [] masking_type = "city" -> {"West Jeffrey", "Davidshire"}
      [] masking_type = "country" -> {"Chad", "Peru"}
      [] masking_type = "text" -> {"Lorem ipsum.", "Dolor sit."}
      [] masking_type = "password" -> {"x9!Qw", "p#7Lk"}
      [] OTHER -> {}

\* The outcomes of one generator call: a value, or an internal error.
GeneratorOutcomes(masking_type) ==
    {[raises |-> FALSE, value |-> s] : s \in FakerValues(masking_type)}
        \cup {[raises |-> TRUE, value |-> ""]}

\* Variant: no default branch, an unrecognized category raises.
ApplyMaskingUnknownRaises(masking_type, gen) ==
    IF masking_type \in RecognizedTypes
    THEN IF gen.raises THEN Ok(PyStr("MASKED_ERROR")) ELSE Ok(PyStr(gen.value))
    ELSE Raise("ValueError")

\* apply_masking as a result: the value returned, or the exception raised.
\* The try/except of lines 108-136 turns every generator error into the
\* sentinel 'MASKED_ERROR'; the else branch returns 'MASKED'.
apply_masking(masking_type, gen) ==
    IF masking_type \in RecognizedTypes
    THEN IF gen.raises THEN Ok(PyStr("MASKED_ERROR")) ELSE Ok(PyStr(gen.value))
    ELSE Ok(PyStr("MASKED"))

(***************************************************************************)
(* The files and arguments a run is started with.                          *)
(***************************************************************************)
\* str.lower() on the extension of a path.
Lower(ext) ==
    CASE ext = ".JSON" -> ".json"
      [] ext = ".Json" -> ".json"
      [] ext = ".TXT" -> ".txt"
      [] OTHER -> ext

\* path.lower().endswith('.json')
EndsWithJson(path) == Lower(path.ext) = ".json"

Path(stem, ext) == [stem |-> stem, ext |-> ext]

ArgsUniverse ==
    {[config_file |-> Path("config", ".json"), input_file |-> Path("input", ".JSON"),
      output_file |-> Path("output", ".json")],
     [config_file |-> Path("config", ".yaml"), input_file |-> Path("input", ".json"),
      output_file |-> Path("output", ".json")],
     [config_file |-> Path("config", ".json"), input_file |-> Path("input", ".csv"),
      output_file |-> Path("output", ".json")],
     [config_file |-> Path("config", ".json"), input_file |-> Path("input", ".json"),
      output_file |-> Path("output", "")]}

Rule(c, f, m) == [isdict |-> TRUE, d |-> [condition |-> c, field |-> f, masking_type |-> m]]

\* Elements a rule-set file may list: well-formed rules, a mapping without
\* masking_type, and an element that is no mapping.
ValidRules ==
    {Rule("department == 'HR'", "email", "email"),
     Rule("record['department'] == 'HR'", "email", "email"),
     Rule("department == 'HR' and age > 60", "email", "hash"),
     Rule("not email == 'a@x.com'", "name", "name"),
     Rule("department = 'HR'", "name", "name")}

MalformedRules ==
    {[isdict |-> TRUE, d |-> [condition |-> "department == 'HR'", field |-> "email"]],
     [isdict |-> FALSE, d |-> <<>>]}

\* Content of the rule-set file: absent, not JSON, a JSON object, or a list.
ConfigFiles ==
    {[state |-> s, items |-> <<>>] : s \in {"missing", "invalid_json", "object"}}
        \cup {[state |-> "list", items |-> rs] :
                 rs \in SeqsUpTo(ValidRules \cup MalformedRules, MaxRules)}

RecordA ==
    [name |-> PyStr("A"), department |-> PyStr("HR"), email |-> PyStr("a@x.com"),
     age |-> PyInt(65)]
RecordB ==
    [name |-> PyStr("B"), department |-> PyStr("Sales"), email |-> PyStr("b@x.com"),
     age |-> PyInt(30)]
RecordC == [department |-> PyStr("HR"), age |-> PyStr("n/a")]

Records == {RecordA, RecordB, RecordC}

InputFiles ==
    {[state |-> s, items |-> <<>>] : s \in {"missing", "invalid_json", "object"}}
        \cup {[state |-> "list", items |-> rs] : rs \in SeqsUpTo(Records, MaxRecords)}

None == [isNone |-> TRUE, rules |-> <<>>]
Some(rules) == [isNone |-> FALSE, rules |-> rules]

NotWritten == [written |-> FALSE, records |-> <<>>]

Init ==
    /\ args \in ArgsUniverse
    /\ configFile \in ConfigFiles
    /\ inputFile \in InputFiles
    /\ outputFile = NotWritten
    /\ config = None
    /\ heap = <<>>
    /\ data = <<>>
    /\ masked_data = <<>>
    /\ masked_record = 0
    /\ i = 0
    /\ j = 0
    /\ log = <<>>
    /\ pc = "main"
    /\ exitStatus = -1

(***************************************************************************)
(* main: the extension checks, each ending the run with sys.exit(1).       *)
(***************************************************************************)
Main ==
    /\ pc = "main"
    /\ IF /\ EndsWithJson(args.config_file)
          /\ EndsWithJson(args.input_file)
          /\ EndsWithJson(args.output_file)
       THEN pc' = "load_config" /\ UNCHANGED exitStatus
       ELSE pc' = "exit" /\ exitStatus' = 1
    /\ UNCHANGED <<args, configFile, inputFile, outputFile, config, heap, data,
                   masked_data, masked_record, i, j, log>>

(***************************************************************************)
(* load_config, called by __init__: the rule list, or None on any failure. *)
(***************************************************************************)
ValidRule(rule) ==
    /\ rule.isdict
    /\ "condition" \in DOMAIN rule.d
    /\ "field" \in DOMAIN rule.d
    /\ "masking_type" \in DOMAIN rule.d

\* Variant: the malformed elements are dropped and the rest is kept.
LoadConfigValidSubset(file) ==
    IF file.state # "list" THEN None
    ELSE LET kept == SelectSeq(file.items, ValidRule) IN
         Some([k \in 1..Len(kept) |-> kept[k].d])

load_config(file) ==
    IF file.state = "missing" THEN None              \* FileNotFoundError
    ELSE IF file.state = "invalid_json" THEN None    \* json.JSONDecodeError
    ELSE IF file.state # "list" THEN None            \* ValueError: not a list
    ELSE IF \E k \in 1..Len(file.items) : ~ValidRule(file.items[k])
         THEN None                                   \* ValueError: a bad rule
         ELSE Some([k \in 1..Len(file.items) |-> file.items[k].d])

LoadConfig ==
    /\ pc = "load_config"
    /\ config' = load_config(configFile)
    /\ pc' = "process_data"
    /\ UNCHANGED <<args, configFile, inputFile, outputFile, heap, data,
                   masked_data, masked_record, i, j, log, exitStatus>>

(***************************************************************************)
(* process_data up to the call of mask_data.                               *)
(***************************************************************************)
ProcessDataNoConfig ==
    /\ pc = "process_data"
    /\ config.isNone
    /\ pc' = "exit"
    /\ exitStatus' = 0
    /\ UNCHANGED <<args, configFile, inputFile, outputFile, config, heap, data,
                   masked_data, masked_record, i, j, log>>

\* Input file absent (FileNotFoundError, caught), not JSON, or not a list.
ProcessDataBadInput ==
    /\ pc = "process_data"
    /\ ~config.isNone
    /\ inputFile.state # "list"
    /\ pc' = "exit"
    /\ exitStatus' = 0
    /\ UNCHANGED <<args, configFile, inputFile, outputFile, config, heap, data,
                   masked_data, masked_record, i, j, log>>

\* json.load builds the caller's list: one object per record.
ProcessDataLoad ==
    /\ pc = "process_data"
    /\ ~config.isNone
    /\ inputFile.state = "list"
    /\ heap' = [r \in 1..Len(inputFile.items) |-> inputFile.items[r]]
    /\ data' = [r \in 1..Len(inputFile.items) |-> r]
    /\ masked_data' = <<>>
    /\ i' = 1
    /\ pc' = "for_record"
    /\ UNCHANGED <<args, configFile, inputFile, outputFile, config,
                   masked_record, j, log, exitStatus>>

(***************************************************************************)
(* mask_data.                                                              *)
(***************************************************************************)
\* Variant: no copy, the working record is the caller's record.
RecordCopyAlias(ref, fresh) == ref

\* record.copy(): a new object, never the caller's.
RecordCopy(ref, fresh) == fresh

\* The outcome of `if eval(rule['condition'], {}, masked_record)`.
ConditionOutcome(rule, rec) ==
    LET r == Eval(Parse(rule.condition), rec) IN
    IF r.exc = "NameError" THEN "NameError"
    ELSE IF r.exc # "none" THEN "Exception"
    ELSE IF Truthy(r.v) THEN "true" ELSE "false"

\* Variant: the membership test is dropped.
FieldPresentAlways(rec, field) == TRUE

\* field_to_mask in masked_record
FieldPresent(rec, field) == field \in DOMAIN rec

\* masked_record[field_to_mask] = value (dict assignment)
StoreField(rec, field, value) == (field :> value) @@ rec

\* Variant: the assignment is made whatever the condition evaluates to.
MasksIgnoringCondition(cond, present) == cond \in {"true", "false"} /\ present

\* Whether the rule reaches the assignment of line 82.
Masks(cond, present) == cond = "true" /\ present

\* Variant: `break` in the exception handlers.
NextRuleBreak(cond, rule, count) ==
    IF cond \in {"NameError", "Exception"} THEN count + 1 ELSE rule + 1

\* The rule index after one pass of the rule loop; `continue` after an
\* exception goes on with the next rule like the normal end of the body.
NextRule(cond, rule, count) == rule + 1

\* Variant: the rules are taken last to first.
RuleIndexReversed(pos, count) == count - pos + 1

\* `for rule in self.config`: the rule taken at the pos-th pass of the loop.
RuleIndex(pos, count) == pos

\* Variant: the masked record is put in front of the list.
AppendMaskedFront(list, ref) == <<ref>> \o list

\* masked_data.append(masked_record)
AppendMasked(list, ref) == Append(list, ref)

ForRecord ==
    /\ pc = "for_record"
    /\ i <= Len(data)
    /\ LET new == RecordCopy(data[i], Len(heap) + 1) IN
       /\ masked_record' = new
       /\ heap' = [r \in DOMAIN heap \cup {new} |-> IF r = new THEN heap[data[i]] ELSE heap[r]]
    /\ j' = 1
    /\ pc' = "for_rule"
    /\ UNCHANGED <<args, configFile, inputFile, outputFile, config, data,
                   masked_data, i, log, exitStatus>>

ForRule ==
    /\ pc = "for_rule"
    /\ j <= Len(config.rules)
    /\ LET r == RuleIndex(j, Len(config.rules))
           rule == config.rules[r]
           rec == heap[masked_record]
           cond == ConditionOutcome(rule, rec)
           present == FieldPresent(rec, rule.field)
       IN \E gen \in GeneratorOutcomes(rule.masking_type) :
            LET res == apply_masking(rule.masking_type, gen)
                \* an exception out of apply_masking would be caught at line 90
                masked == Masks(cond, present) /\ res.exc = "none"
            IN /\ heap' = IF masked
                          THEN [heap EXCEPT ![masked_record] =
                                    StoreField(rec, rule.field, res.v)]
                          ELSE heap
               /\ log' = Append(log,
                    [record |-> i, rule |-> r, field |-> rule.field,
                     masking_type |-> rule.masking_type, cond |-> cond,
                     masked |-> masked,
                     raised |-> Masks(cond, present) /\ gen.raises
                                  /\ rule.masking_type \in RecognizedTypes,
                     value |-> IF masked THEN res.v ELSE PyStr("")])
               /\ j' = NextRule(cond, j, Len(config.rules))
    /\ UNCHANGED <<args, configFile, inputFile, outputFile, config, data,
                   masked_data, masked_record, i, pc, exitStatus>>

AppendRecord ==
    /\ pc = "for_rule"
    /\ j > Len(config.rules)
    /\ masked_data' = AppendMasked(masked_data, masked_record)
    /\ i' = i + 1
    /\ pc' = "for_record"
    /\ UNCHANGED <<args, configFile, inputFile, outputFile, config, heap, data,
                   masked_record, j, log, exitStatus>>

ReturnMasked ==
    /\ pc = "for_record"
    /\ i > Len(data)
    /\ pc' = "write"
    /\ UNCHANGED <<args, configFile, inputFile, outputFile, config, heap, data,
                   masked_data, masked_record, i, j, log, exitStatus>>

(***************************************************************************)
(* process_data after mask_data: json.dump to the output file.  A failure  *)
(* to open or write it is caught and logged; main then returns.            *)
(***************************************************************************)
WriteOutput ==
    /\ pc = "write"
    /\ \E ok \in BOOLEAN :
         outputFile' = IF ok
                       THEN [written |-> TRUE,
                             records |-> [k \in 1..Len(masked_data) |-> heap[masked_data[k]]]]
                       ELSE outputFile
    /\ pc' = "exit"
    /\ exitStatus' = 0
    /\ UNCHANGED <<args, configFile, inputFile, config, heap, data,
                   masked_data, masked_record, i, j, log>>

Next ==
    \/ Main
    \/ LoadConfig
    \/ ProcessDataNoConfig
    \/ ProcessDataBadInput
    \/ ProcessDataLoad
    \/ ForRecord
    \/ ForRule
    \/ AppendRecord
    \/ ReturnMasked
    \/ WriteOutput

Spec == Init /\ [][Next]_vars

(***************************************************************************)
(* Properties.                                                             *)
(***************************************************************************)
In(k) == inputFile.items[k]
Out(k) == heap[masked_data[k]]
Returned == pc = "write"
Errors == {"NameError", "Exception"}
LogOf(k) == {n \in 1..Len(log) : log[n].record = k}

\* The record rec after the assignments the log lists for record k, in order.
RECURSIVE Replay(_, _, _)
Replay(rec, k, n) ==
    IF n = 0 THEN rec
    ELSE LET prev == Replay(rec, k, n - 1) IN
         IF log[n].record = k /\ log[n].masked
         THEN [f \in DOMAIN prev |-> IF f = log[n].field THEN log[n].value ELSE prev[f]]
         ELSE prev

\* C1: when mask_data returns, the output list has the length of the input
\* list and its k-th record is the k-th input record with that record's
\* replacements applied: nothing is added, dropped or reordered.
C1_SameLengthSameOrder ==
    Returned =>
        /\ Len(masked_data) = Len(inputFile.items)
        /\ \A k \in 1..Len(inputFile.items) : Out(k) = Replay(In(k), k, Len(log))

C1_Witness ==
    /\ Returned
    /\ Len(masked_data) = 2
    /\ In(1) # In(2)
    /\ Out(1) # In(1)
    /\ \E n \in 1..Len(log) : log[n].cond \in Errors

BadExtension ==
    \/ ~EndsWithJson(args.config_file)
    \/ ~EndsWithJson(args.input_file)
    \/ ~EndsWithJson(args.output_file)
Unparseable == configFile.state = "invalid_json" \/ inputFile.state = "invalid_json"
ShapeInvalid ==
    \/ configFile.state = "object"
    \/ configFile.state = "list" /\ \E k \in 1..Len(configFile.items) :
          ~(/\ configFile.items[k].isdict
            /\ {"condition", "field", "masking_type"} \subseteq DOMAIN configFile.items[k].d)

\* C3: the run ends with a non-zero exit status when a path lacks the .json
\* extension, when the rule-set or input file cannot be parsed, and when the
\* rule set fails the shape validation.
C3_FailuresExitNonZero ==
    pc = "exit" /\ (BadExtension \/ Unparseable \/ ShapeInvalid) => exitStatus # 0

\* C4: a rule written as in the example usage, record['department'] == 'HR',
\* replaces its target field in every record whose department is 'HR'.
C4_ExampleConditionMasks ==
    Returned =>
        \A k \in 1..Len(masked_data) : \A r \in 1..Len(config.rules) :
            (/\ config.rules[r].condition = "record['department'] == 'HR'"
             /\ config.rules[r].field \in DOMAIN In(k)
             /\ "department" \in DOMAIN In(k)
             /\ In(k).department = PyStr("HR"))
            => \E n \in LogOf(k) : log[n].rule = r /\ log[n].masked

\* C5: when several rules target the same existing field of a record and
\* their conditions hold, the field of the output record carries the value
\* generated for the one that comes last in the rule set.
C5_LaterRuleWins ==
    Returned =>
        \A k \in 1..Len(masked_data) : \A a, b \in LogOf(k) :
            (/\ log[a].rule < log[b].rule
             /\ log[a].field = log[b].field
             /\ log[a].field \in DOMAIN In(k)
             /\ log[a].cond = "true" /\ log[b].cond = "true"
             /\ ~\E c \in LogOf(k) : /\ log[c].rule > log[b].rule
                                     /\ log[c].field = log[b].field
                                     /\ log[c].cond = "true")
            => Out(k)[log[b].field] = log[b].value

C5_Witness ==
    /\ Returned
    /\ \E k \in 1..Len(masked_data) : \E a, b \in LogOf(k) :
          /\ log[a].rule < log[b].rule
          /\ log[a].field = log[b].field
          /\ log[a].masked /\ log[b].masked
          /\ log[a].value # log[b].value
          /\ Out(k)[log[b].field] = log[b].value

\* C6 (state part): when mask_data returns, every rule has been evaluated on
\* every record, in order, and every record is in the output, whatever
\* conditions failed to evaluate.
C6_AllRulesAllRecords ==
    Returned =>
        /\ Len(masked_data) = Len(data)
        /\ Len(log) = Len(data) * Len(config.rules)
        /\ \A k \in 1..Len(data) : \A r \in 1..Len(config.rules) :
              /\ log[(k - 1) * Len(config.rules) + r].record = k
              /\ log[(k - 1) * Len(config.rules) + r].rule = r

\* C6 (step part): a rule whose condition cannot be evaluated changes no
\* record and the loop goes on with the next rule.
C6_FailedRuleChangesNothing ==
    (pc = "for_rule" /\ Len(log') = Len(log) + 1 /\ log'[Len(log')].cond \in Errors)
        => heap' = heap /\ pc' = "for_rule" /\ j' = j + 1

\* C6: a condition that cannot be evaluated (a missing name, or any other
\* failure) does not abort mask_data: the rule changes nothing, the later
\* rules and records are still processed and the record is output.
C6_ErrorsSkipOnlyTheRule ==
    [](C6_AllRulesAllRecords) /\ [][C6_FailedRuleChangesNothing]_vars

C6_Witness ==
    /\ Returned
    /\ Len(data) = 2
    /\ \E a, b \in LogOf(1) :
          /\ a < b
          /\ log[a].cond \in Errors
          /\ log[b].masked
    /\ \E n \in LogOf(2) : log[n].masked

\* C7 (state part): the working copy and every output record have exactly
\* the field names of the input record they come from.
C7_SameFieldNames ==
    /\ \A k \in 1..Len(masked_data) :
          k <= Len(inputFile.items) => DOMAIN Out(k) = DOMAIN In(k)
    /\ pc = "for_rule" => DOMAIN heap[masked_record] = DOMAIN In(i)

\* C7 (step part): a rule whose condition holds but whose target field the
\* record lacks changes nothing and the loop goes on.
C7_AbsentTargetChangesNothing ==
    (/\ pc = "for_rule"
     /\ Len(log') = Len(log) + 1
     /\ log'[Len(log')].cond = "true"
     /\ log'[Len(log')].field \notin DOMAIN heap[masked_record])
        => heap' = heap /\ pc' = "for_rule" /\ j' = j + 1

C8_MalformedRuleSetLoadsNothing ==
    (pc \notin {"main", "load_config"} /\ ShapeInvalid) =>
        /\ config.isNone
        /\ log = <<>>
        /\ masked_data = <<>>
        /\ ~outputFile.written

C8_Witness ==
    /\ pc = "exit"
    /\ ~BadExtension
    /\ configFile.state = "list"
    /\ Len(configFile.items) = 2
    /\ \E k \in 1..2 : configFile.items[k] \in ValidRules
    /\ ShapeInvalid
    /\ inputFile.state = "list"
    /\ Len(inputFile.items) > 0
    /\ ~outputFile.written

\* C9: the records of the list passed to mask_data keep the fields and the
\* values they had before the call; replacements go to the per-record copy.
C9_InputRecordsUntouched ==
    pc \in {"for_record", "for_rule", "write", "exit"} =>
        \A k \in 1..Len(data) : heap[data[k]] = In(k)

C9_Witness ==
    /\ Returned
    /\ \E k \in 1..Len(data) : Out(k) # In(k) /\ heap[data[k]] = In(k)
    /\ \A k \in 1..Len(data) : masked_data[k] # data[k]

\* C10: apply_masking never raises: an unrecognized category gives 'MASKED',
\* a failing generator of a recognized category gives 'MASKED_ERROR'; the
\* target field of the matching record is set to that value and the run
\* goes on to the end.
C10_SentinelsNotExceptions ==
    /\ \A n \in 1..Len(log) :
          (log[n].cond = "true" /\ log[n].field \in DOMAIN In(log[n].record)) =>
              /\ log[n].masked
              /\ log[n].masking_type \notin RecognizedTypes
                    => log[n].value = PyStr("MASKED")
              /\ (log[n].masking_type \in RecognizedTypes /\ log[n].raised)
                    => log[n].value = PyStr("MASKED_ERROR")
    /\ (pc = "for_rule" /\ j > 1 /\ log[Len(log)].masked)
          => heap[masked_record][log[Len(log)].field] = log[Len(log)].value
    /\ pc = "exit" /\ log # <<>> => Len(masked_data) = Len(data)

C10_Witness ==
    /\ Returned
    /\ \E a, b \in 1..Len(log) :
          /\ log[a].masked /\ log[a].masking_type = "hash"
          /\ log[a].value = PyStr("MASKED")
          /\ log[b].masked /\ log[b].raised
          /\ log[b].value = PyStr("MASKED_ERROR")
          /\ Out(log[b].record)[log[b].field] = PyStr("MASKED_ERROR")

====
